---- MODULE Spec2Model ----
(***************************************************************************)
(* A model of app.py: the Airbnb dashboard.  The module-level code loads   *)
(* the CSV file once (df), derives the dropdown options and the layout     *)
(* defaults, and the Dash callback update_all maps the three dropdown      *)
(* values to three figures and three KPI texts.                            *)
(*                                                                         *)
(* Encoding.  A row is a record with the columns the callback reads, plus  *)
(* idx, the pandas index label (the row's position in the file), which     *)
(* boolean indexing and dropna keep.  A float column value that may be NaN *)
(* (latitude, longitude) is <<>> for NaN and <<v>> otherwise.  A mean is   *)
(* the exact fraction [num, den].  The value of the price-ceiling dropdown *)
(* is written as text ("none", "200", ...) and float() turns it into a     *)
(* number.  An axis range is <<>> when the figure does not set it.         *)
(* The columns price, neighbourhood_group, room_type and minimum_nights    *)
(* are taken to be present in every row of the file (the file is           *)
(* airbnb_cleaned.csv); number_of_reviews and neighbourhood only decorate  *)
(* the map markers and are left out.                                       *)
(***************************************************************************)
EXTENDS Integers, Sequences, FiniteSets, TLC

VARIABLES file, pc, df, neigh_groups, room_types, sel, out, frame

vars == <<file, pc, df, neigh_groups, room_types, sel, out, frame>>

\* Longest input file explored, in rows.
MaxRows == 3

PRICE_AXIS_MAX == 600

BASE_CAP == 800

Range(s) == {s[i] : i \in DOMAIN s}

Idx(s) == {s[i].idx : i \in DOMAIN s}

\* ------------------------------------------------------------------------
\* The input file
\* ------------------------------------------------------------------------

Row(p, g, t, m, la, lo) ==
    [price |-> p, neighbourhood_group |-> g, room_type |-> t,
     minimum_nights |-> m, latitude |-> la, longitude |-> lo]

\* The rows a file is made of: prices at, below and above every threshold of
\* the program (0, the ceilings, the 800 cap), both boroughs with both room
\* types, and each way a coordinate can be missing.
RowPool ==
    { Row(0,    "Brooklyn",  "Private room",    1,  <<407>>, <<-739>>),
      Row(200,  "Brooklyn",  "Private room",    1,  <<407>>, <<-739>>),
      Row(150,  "Manhattan", "Entire home/apt", 2,  <<>>,    <<-740>>),
      Row(800,  "Brooklyn",  "Entire home/apt", 3,  <<406>>, <<>>),
      Row(801,  "Brooklyn",  "Private room",    1,  <<>>,    <<>>),
      Row(900,  "Manhattan", "Private room",    2,  <<408>>, <<-740>>),
      Row(1200, "Manhattan", "Entire home/apt", 30, <<408>>, <<-739>>) }

RowSeqs == UNION {[1..n -> RowPool] : n \in 0..MaxRows}

Files ==
    {[status |-> "ok", rows |-> rs] : rs \in RowSeqs}
    \cup {[status |-> "missing", rows |-> <<>>],
          [status |-> "no_price_column", rows |-> <<>>]}

\* pd.read_csv: the rows of the file, labelled with the default RangeIndex.
read_csv(f) ==
    [i \in DOMAIN f.rows |->
        [idx |-> i,
         price |-> f.rows[i].price,
         neighbourhood_group |-> f.rows[i].neighbourhood_group,
         room_type |-> f.rows[i].room_type,
         minimum_nights |-> f.rows[i].minimum_nights,
         latitude |-> f.rows[i].latitude,
         longitude |-> f.rows[i].longitude]]

PositivePriceBug(raw) ==
    LET Keep(r) == r.price >= 0 IN SelectSeq(raw, Keep)

\* df = df[df["price"] > 0].copy()
PositivePrice(raw) ==
    LET Keep(r) == r.price > 0 IN SelectSeq(raw, Keep)

\* Alphabetical order of the category values, as sorted() orders them.
BoroughOrder == <<"Bronx", "Brooklyn", "Manhattan", "Queens", "Staten Island">>

RoomTypeOrder == <<"Entire home/apt", "Private room", "Shared room">>

\* sorted(df[col].dropna().unique().tolist())
SortedUnique(values, order) ==
    LET Present(v) == v \in values IN SelectSeq(order, Present)

price_ceiling_options == <<"none", "200", "400", "600", "800", "1000">>

float(v) ==
    CASE v = "200" -> 200
      [] v = "400" -> 400
      [] v = "600" -> 600
      [] v = "800" -> 800
      [] v = "1000" -> 1000

DefaultSelBug ==
    [neigh_group |-> "All", room_type |-> "All", price_ceiling |-> "none"]

\* The value= of the three dcc.Dropdown components of the layout.
DefaultSel ==
    [neigh_group |-> "All", room_type |-> "All", price_ceiling |-> "800"]

\* ------------------------------------------------------------------------
\* update_all: the three filters
\* ------------------------------------------------------------------------

\* if neigh_group != "All": data = data[data["neighbourhood_group"] == neigh_group]
FilterNeigh(data, neigh_group) ==
    LET Keep(r) == r.neighbourhood_group = neigh_group
    IN  IF neigh_group /= "All" THEN SelectSeq(data, Keep) ELSE data

\* if room_type != "All": data = data[data["room_type"] == room_type]
FilterRoom(data, room_type) ==
    LET Keep(r) == r.room_type = room_type
    IN  IF room_type /= "All" THEN SelectSeq(data, Keep) ELSE data

FilterPriceBug(data, price_ceiling) ==
    LET Keep(r) == r.price < float(price_ceiling)
    IN  IF price_ceiling /= "none" THEN SelectSeq(data, Keep) ELSE data

\* if price_ceiling != "none": data = data[data["price"] <= float(price_ceiling)]
FilterPrice(data, price_ceiling) ==
    LET Keep(r) == r.price <= float(price_ceiling)
    IN  IF price_ceiling /= "none" THEN SelectSeq(data, Keep) ELSE data

emptyBug(data) ==
    LET Keep(r) == r.price <= BASE_CAP IN SelectSeq(data, Keep) = <<>>

\* data.empty
empty(data) == Len(data) = 0

\* ------------------------------------------------------------------------
\* update_all: the KPIs
\* ------------------------------------------------------------------------

RECURSIVE SumPrice(_)
SumPrice(data) ==
    IF data = <<>> THEN 0 ELSE Head(data).price + SumPrice(Tail(data))

RECURSIVE SumNights(_)
SumNights(data) ==
    IF data = <<>> THEN 0 ELSE Head(data).minimum_nights + SumNights(Tail(data))

mean_priceBug(data) ==
    LET Keep(r) == r.price <= BASE_CAP
    IN  [num |-> SumPrice(SelectSeq(data, Keep)), den |-> Len(SelectSeq(data, Keep))]

\* data["price"].mean()
mean_price(data) == [num |-> SumPrice(data), den |-> Len(data)]

\* data["minimum_nights"].mean()
mean_min_nights(data) == [num |-> SumNights(data), den |-> Len(data)]

\* len(data)
num_listings(data) == Len(data)

\* Rounding of a non-negative fraction to the nearest integer, ties to even,
\* as the format specifications .0f and .1f round a float that holds the
\* fraction exactly (a tie is a multiple of 1/2 or 1/20; the means of up to
\* five integers that tie are multiples of 1/4, which a float holds exactly).
RoundHalfEven(num, den) ==
    LET q == num \div den
        r == num % den
    IN  IF 2 * r < den THEN q
        ELSE IF 2 * r > den THEN q + 1
        ELSE IF q % 2 = 0 THEN q ELSE q + 1

Pad3(n) ==
    IF n < 10 THEN "00" \o ToString(n)
    ELSE IF n < 100 THEN "0" \o ToString(n)
    ELSE ToString(n)

\* The "," option of the format specification: groups of three digits.
RECURSIVE Commas(_)
Commas(n) ==
    IF n < 1000 THEN ToString(n)
    ELSE Commas(n \div 1000) \o "," \o Pad3(n % 1000)

\* f"${avg_price:,.0f}"; the mean of no value is NaN, which formats as "nan".
fmt_avg_price(m) ==
    IF m.den = 0 THEN "$nan" ELSE "$" \o Commas(RoundHalfEven(m.num, m.den))

\* f"{num_listings:,}"
fmt_num_listings(n) == Commas(n)

\* f"{avg_min_nights:.1f} nights"
fmt_avg_min_nights(m) ==
    LET t == RoundHalfEven(10 * m.num, m.den)
    IN  IF m.den = 0 THEN "nan nights"
        ELSE ToString(t \div 10) \o "." \o ToString(t % 10) \o " nights"

\* ------------------------------------------------------------------------
\* update_all: the figures
\* ------------------------------------------------------------------------

Fig(kind, title, visible, xrange, yrange, rows) ==
    [kind |-> kind, title |-> title, xaxis_visible |-> visible,
     yaxis_visible |-> visible, xrange |-> xrange, yrange |-> yrange,
     rows |-> rows]

\* px.scatter(title=...) with both axes made invisible.
empty_fig == Fig("scatter", "No data for selected filters", FALSE, <<>>, <<>>, <<>>)

base_capBug(price_ceiling) ==
    IF price_ceiling /= "none" THEN float(price_ceiling) ELSE BASE_CAP

\* base_cap = 800; if price_ceiling != "none": base_cap = min(base_cap, float(...))
base_cap(price_ceiling) ==
    IF price_ceiling /= "none"
    THEN (IF float(price_ceiling) < BASE_CAP THEN float(price_ceiling) ELSE BASE_CAP)
    ELSE BASE_CAP

hist_dataBug(data, cap) == data

\* hist_data = data[data["price"] <= base_cap]
hist_data(data, cap) ==
    LET Keep(r) == r.price <= cap IN SelectSeq(data, Keep)

hist_fig(rows, cap) == Fig("histogram", "", TRUE, <<0, cap>>, <<>>, rows)

RECURSIVE Insert(_, _)
Insert(x, s) ==
    IF s = <<>> THEN <<x>>
    ELSE IF x <= Head(s) THEN <<x>> \o s
    ELSE <<Head(s)>> \o Insert(x, Tail(s))

RECURSIVE SortedPrices(_)
SortedPrices(data) ==
    IF data = <<>> THEN <<>> ELSE Insert(Head(data).price, SortedPrices(Tail(data)))

\* Series.quantile(quarters / 4) with linear interpolation, in quarter units
\* (four times the value), over a sorted non-empty sequence.
Quantile4(s, quarters) ==
    LET k == (Len(s) - 1) * quarters
        i == k \div 4
        r == k % 4
    IN  4 * s[i + 1] + (IF r = 0 THEN 0 ELSE r * (s[i + 2] - s[i + 1]))

\* data.groupby("neighbourhood_group")["price"].agg(...): one entry per group
\* of data; the quartiles are in quarter units.
stats(data) ==
    [g \in {data[i].neighbourhood_group : i \in DOMAIN data} |->
        LET InGroup(r) == r.neighbourhood_group = g
            s == SortedPrices(SelectSeq(data, InGroup))
        IN  [min_price |-> s[1],
             q1_price |-> Quantile4(s, 1),
             median_price |-> Quantile4(s, 2),
             q3_price |-> Quantile4(s, 3),
             max_price |-> s[Len(s)]]]

\* data.merge(stats, on="neighbourhood_group", how="left")
data_violin(data) ==
    LET st == stats(data)
    IN  [i \in DOMAIN data |->
            [idx |-> data[i].idx,
             price |-> data[i].price,
             neighbourhood_group |-> data[i].neighbourhood_group,
             room_type |-> data[i].room_type,
             minimum_nights |-> data[i].minimum_nights,
             group_stats |-> st[data[i].neighbourhood_group]]]

violin_rangeBug(cap) == <<0, cap>>

\* violin_fig.update_yaxes(range=[0, PRICE_AXIS_MAX], fixedrange=True)
violin_range(cap) == <<0, PRICE_AXIS_MAX>>

violin_fig(rows, cap) == Fig("violin", "", TRUE, <<>>, violin_range(cap), rows)

map_dataBug(data) ==
    LET Keep(r) == r.latitude /= <<>> IN SelectSeq(data, Keep)

\* map_data = data.dropna(subset=["latitude", "longitude"]).copy()
map_data(data) ==
    LET Keep(r) == r.latitude /= <<>> /\ r.longitude /= <<>>
    IN  SelectSeq(data, Keep)

map_fig(rows) == Fig("scatter_mapbox", "", TRUE, <<>>, <<>>, rows)

NoMean == [num |-> 0, den |-> 0]

\* The body of update_all on the dataset d: the value it returns (ret) and
\* the values of its local variables when it returns (locals; at the early
\* return the locals after `data` are not assigned and hold neutral values).
View(d, neigh_group, room_type, price_ceiling) ==
    LET data == FilterPrice(FilterRoom(FilterNeigh(d, neigh_group), room_type),
                            price_ceiling)
    IN  IF empty(data)
        THEN [ret |-> [hist |-> empty_fig, violin |-> empty_fig, map |-> empty_fig,
                       kpi_avg_price |-> "N/A", kpi_num_listings |-> "N/A",
                       kpi_avg_min_nights |-> "N/A"],
              locals |-> [returned |-> "early", data |-> data,
                          avg_price |-> NoMean, num_listings |-> 0,
                          avg_min_nights |-> NoMean, base_cap |-> 0,
                          hist_data |-> <<>>, map_data |-> <<>>]]
        ELSE LET avg_price == mean_price(data)
                 n == num_listings(data)
                 avg_min_nights == mean_min_nights(data)
                 cap == base_cap(price_ceiling)
                 hd == hist_data(data, cap)
                 md == map_data(data)
             IN  [ret |-> [hist |-> hist_fig(hd, cap),
                           violin |-> violin_fig(data_violin(data), cap),
                           map |-> map_fig(md),
                           kpi_avg_price |-> fmt_avg_price(avg_price),
                           kpi_num_listings |-> fmt_num_listings(n),
                           kpi_avg_min_nights |-> fmt_avg_min_nights(avg_min_nights)],
                  locals |-> [returned |-> "full", data |-> data,
                              avg_price |-> avg_price, num_listings |-> n,
                              avg_min_nights |-> avg_min_nights, base_cap |-> cap,
                              hist_data |-> hd, map_data |-> md]]

update_allBug(neigh_group, room_type, price_ceiling) ==
    LET v == View(df, neigh_group, room_type, price_ceiling)
    IN  /\ out' = v.ret
        /\ frame' = v.locals
        /\ df' = v.locals.data

\* One invocation of the callback: data = df.copy() is filtered, df is not.
update_all(neigh_group, room_type, price_ceiling) ==
    LET v == View(df, neigh_group, room_type, price_ceiling)
    IN  /\ out' = v.ret
        /\ frame' = v.locals
        /\ df' = df

\* ------------------------------------------------------------------------
\* The program
\* ------------------------------------------------------------------------

NoOut ==
    [hist |-> Fig("none", "", FALSE, <<>>, <<>>, <<>>),
     violin |-> Fig("none", "", FALSE, <<>>, <<>>, <<>>),
     map |-> Fig("none", "", FALSE, <<>>, <<>>, <<>>),
     kpi_avg_price |-> "", kpi_num_listings |-> "", kpi_avg_min_nights |-> ""]

NoFrame ==
    [returned |-> "never", data |-> <<>>, avg_price |-> NoMean, num_listings |-> 0,
     avg_min_nights |-> NoMean, base_cap |-> 0, hist_data |-> <<>>, map_data |-> <<>>]

Init ==
    /\ file \in Files
    /\ pc = "start"
    /\ df = <<>>
    /\ neigh_groups = <<>>
    /\ room_types = <<>>
    /\ sel = DefaultSel
    /\ out = NoOut
    /\ frame = NoFrame

\* The module-level code up to app.layout, when no statement raises.
Startup ==
    /\ pc = "start"
    /\ file.status = "ok"
    /\ LET loaded == PositivePrice(read_csv(file))
       IN  /\ df' = loaded
           /\ neigh_groups' =
                SortedUnique({r.neighbourhood_group : r \in Range(loaded)}, BoroughOrder)
           /\ room_types' =
                SortedUnique({r.room_type : r \in Range(loaded)}, RoomTypeOrder)
    /\ sel' = DefaultSel
    /\ pc' = "layout"
    /\ UNCHANGED <<file, out, frame>>

\* pd.read_csv raises FileNotFoundError, or df["price"] raises KeyError: the
\* import fails and nothing is served.
StartupFails ==
    /\ pc = "start"
    /\ file.status \in {"missing", "no_price_column"}
    /\ pc' = "aborted"
    /\ UNCHANGED <<file, df, neigh_groups, room_types, sel, out, frame>>

\* The page is loaded: Dash invokes the callback with the layout's values.
InitialCall ==
    /\ pc = "layout"
    /\ update_all(sel.neigh_group, sel.room_type, sel.price_ceiling)
    /\ pc' = "first"
    /\ UNCHANGED <<file, neigh_groups, room_types, sel>>

Serving == pc \in {"first", "serving"}

ChangeNeighGroup ==
    /\ Serving
    /\ \E g \in {"All"} \cup Range(neigh_groups) :
        /\ g /= sel.neigh_group
        /\ sel' = [sel EXCEPT !.neigh_group = g]
        /\ update_all(g, sel.room_type, sel.price_ceiling)
    /\ pc' = "serving"
    /\ UNCHANGED <<file, neigh_groups, room_types>>

ChangeRoomType ==
    /\ Serving
    /\ \E t \in {"All"} \cup Range(room_types) :
        /\ t /= sel.room_type
        /\ sel' = [sel EXCEPT !.room_type = t]
        /\ update_all(sel.neigh_group, t, sel.price_ceiling)
    /\ pc' = "serving"
    /\ UNCHANGED <<file, neigh_groups, room_types>>

ChangePriceCeiling ==
    /\ Serving
    /\ \E c \in Range(price_ceiling_options) :
        /\ c /= sel.price_ceiling
        /\ sel' = [sel EXCEPT !.price_ceiling = c]
        /\ update_all(sel.neigh_group, sel.room_type, c)
    /\ pc' = "serving"
    /\ UNCHANGED <<file, neigh_groups, room_types>>

Next ==
    \/ Startup
    \/ StartupFails
    \/ InitialCall
    \/ ChangeNeighGroup
    \/ ChangeRoomType
    \/ ChangePriceCeiling

Spec == Init /\ [][Next]_vars

\* ------------------------------------------------------------------------
\* Properties
\* ------------------------------------------------------------------------

\* The numeric value of the selected price ceiling.
CeilingOf(c) ==
    CASE c = "200" -> 200 [] c = "400" -> 400 [] c = "600" -> 600
      [] c = "800" -> 800 [] c = "1000" -> 1000

\* The three predicates of the current filter tuple, taken together.
Match(r) ==
    /\ sel.neigh_group = "All" \/ r.neighbourhood_group = sel.neigh_group
    /\ sel.room_type = "All" \/ r.room_type = sel.room_type
    /\ sel.price_ceiling = "none" \/ r.price <= CeilingOf(sel.price_ceiling)

\* The rows of the dataset that the current filter tuple selects.
FilteredRows == {r \in Range(df) : Match(r)}

\* The histogram bound the specification gives for the current ceiling.
HistBound ==
    CASE sel.price_ceiling = "none" -> 800
      [] sel.price_ceiling = "200" -> 200
      [] sel.price_ceiling = "400" -> 400
      [] sel.price_ceiling = "600" -> 600
      [] sel.price_ceiling = "800" -> 800
      [] sel.price_ceiling = "1000" -> 800

RECURSIVE PriceTotal(_)
PriceTotal(S) ==
    IF S = {} THEN 0
    ELSE LET r == CHOOSE x \in S : TRUE IN r.price + PriceTotal(S \ {r})

RECURSIVE NightsTotal(_)
NightsTotal(S) ==
    IF S = {} THEN 0
    ELSE LET r == CHOOSE x \in S : TRUE IN r.minimum_nights + NightsTotal(S \ {r})

IsPlaceholder(f) ==
    /\ f.kind = "scatter"
    /\ f.title = "No data for selected filters"
    /\ ~f.xaxis_visible
    /\ ~f.yaxis_visible

IsSentinel(o) ==
    /\ IsPlaceholder(o.hist) /\ IsPlaceholder(o.violin) /\ IsPlaceholder(o.map)
    /\ o.kpi_avg_price = "N/A"
    /\ o.kpi_num_listings = "N/A"
    /\ o.kpi_avg_min_nights = "N/A"

\* C1: after every invocation of update_all, the filtered subset has no row
\* if and only if the result is the sentinel (three placeholder figures and
\* three "N/A" metrics); when the subset has a row, no metric is "N/A".
C1_SentinelIffEmpty ==
    Serving =>
        /\ (FilteredRows = {}) <=> IsSentinel(out)
        /\ FilteredRows /= {} =>
            /\ out.kpi_avg_price /= "N/A"
            /\ out.kpi_num_listings /= "N/A"
            /\ out.kpi_avg_min_nights /= "N/A"
            /\ ~IsPlaceholder(out.hist)
            /\ ~IsPlaceholder(out.violin)
            /\ ~IsPlaceholder(out.map)

\* A loaded dataset with rows, none of which passes the filters: the sentinel.
C1_Witness ==
    /\ Serving
    /\ df /= <<>>
    /\ FilteredRows = {}
    /\ IsSentinel(out)

\* C2: the subset update_all computes is the rows of df satisfying the three
\* predicates together, in df's order; each of the six orders of applying the
\* filters gives it; with a ceiling, no row above the ceiling is in it and
\* every otherwise matching row priced exactly at the ceiling is.
C2_ConjunctiveFilter ==
    Serving =>
        LET n == sel.neigh_group
            t == sel.room_type
            c == sel.price_ceiling
        IN  /\ frame.data = SelectSeq(df, Match)
            /\ Range(frame.data) = FilteredRows
            /\ frame.data = FilterPrice(FilterRoom(FilterNeigh(df, n), t), c)
            /\ frame.data = FilterRoom(FilterPrice(FilterNeigh(df, n), c), t)
            /\ frame.data = FilterPrice(FilterNeigh(FilterRoom(df, t), n), c)
            /\ frame.data = FilterNeigh(FilterPrice(FilterRoom(df, t), c), n)
            /\ frame.data = FilterRoom(FilterNeigh(FilterPrice(df, c), n), t)
            /\ frame.data = FilterNeigh(FilterRoom(FilterPrice(df, c), t), n)
            /\ c /= "none" =>
                /\ \A r \in Range(frame.data) : r.price <= CeilingOf(c)
                /\ \A r \in Range(df) :
                     /\ r.price = CeilingOf(c)
                     /\ n \in {"All", r.neighbourhood_group}
                     /\ t \in {"All", r.room_type}
                     => r \in Range(frame.data)

\* All three filters set; one row priced exactly at the ceiling is kept, one
\* row is dropped for its price alone.
C2_Witness ==
    /\ Serving
    /\ sel.neigh_group /= "All"
    /\ sel.room_type /= "All"
    /\ sel.price_ceiling /= "none"
    /\ \E r \in Range(frame.data) : r.price = CeilingOf(sel.price_ceiling)
    /\ \E r \in Range(df) :
         /\ r.neighbourhood_group = sel.neigh_group
         /\ r.room_type = sel.room_type
         /\ r.price > CeilingOf(sel.price_ceiling)

\* C3: when the filtered subset is not empty, the average price is the sum of
\* price over the subset divided by its size, the average minimum nights is
\* the sum of minimum_nights over it divided by its size, and the listing
\* count is its size: the subset before the histogram and map restrictions.
C3_Means ==
    (Serving /\ FilteredRows /= {}) =>
        LET k == Cardinality(FilteredRows)
        IN  /\ frame.avg_price.den > 0
            /\ frame.avg_price.num * k = PriceTotal(FilteredRows) * frame.avg_price.den
            /\ frame.avg_min_nights.den > 0
            /\ frame.avg_min_nights.num * k
                 = NightsTotal(FilteredRows) * frame.avg_min_nights.den
            /\ frame.num_listings = k

\* Several filtered rows, of which the histogram drops one and the map one.
C3_Witness ==
    /\ Serving
    /\ Cardinality(FilteredRows) >= 2
    /\ Len(frame.hist_data) < Len(frame.data)
    /\ Len(frame.map_data) < Len(frame.data)
    /\ frame.num_listings = Len(frame.data)
    /\ Len(frame.data) < Len(df)

\* C4: when the filtered subset is not empty, the histogram's x-axis range is
\* [0, U], U = min(800, ceiling) with a ceiling and 800 without: 800 for the
\* options 800 and 1000, the ceiling itself for 200, 400 and 600.
C4_HistRange ==
    (Serving /\ FilteredRows /= {}) =>
        /\ out.hist.xrange = <<0, HistBound>>
        /\ sel.price_ceiling /= "none" =>
             HistBound = (IF CeilingOf(sel.price_ceiling) < 800
                          THEN CeilingOf(sel.price_ceiling) ELSE 800)

\* The ceiling 1000, above the cap, with a row to draw.
C4_Witness ==
    /\ Serving
    /\ FilteredRows /= {}
    /\ sel.price_ceiling = "1000"
    /\ out.hist.xrange = <<0, 800>>

\* C5 as stated: after every invocation, also one whose filtered subset is
\* empty, the violin figure's y-axis range is [0, 600].
C5_Original == Serving => out.violin.yrange = <<0, 600>>

\* C5 amended: after every invocation whose filtered subset is not empty the
\* violin figure's y-axis range is [0, 600], whatever the filters; with an
\* empty subset the second figure is the placeholder, which sets no range.
C5_ViolinRange ==
    Serving =>
        /\ FilteredRows /= {} => out.violin.yrange = <<0, 600>>
        /\ FilteredRows = {} => IsPlaceholder(out.violin) /\ out.violin.yrange = <<>>

\* A low ceiling and a borough selected: the range is still [0, 600].
C5_Witness ==
    /\ Serving
    /\ FilteredRows /= {}
    /\ sel.price_ceiling = "200"
    /\ sel.neigh_group /= "All"
    /\ out.hist.xrange = <<0, 200>>
    /\ out.violin.yrange = <<0, 600>>

HasCoordinates(r) == r.latitude /= <<>> /\ r.longitude /= <<>>

\* C6: when the filtered subset is not empty, the map's rows are the filtered
\* rows with both coordinates, so at most as many as the filtered rows; rows
\* without a coordinate still count in the averages, the listing count, the
\* histogram and the violin.
C6_MapRows ==
    (Serving /\ FilteredRows /= {}) =>
        /\ Range(out.map.rows) = {r \in FilteredRows : HasCoordinates(r)}
        /\ Idx(out.map.rows) = {r.idx : r \in {x \in FilteredRows : HasCoordinates(x)}}
        /\ Len(out.map.rows) = Cardinality(Idx(out.map.rows))
        /\ Len(out.map.rows) <= Cardinality(FilteredRows)
        /\ frame.num_listings = Cardinality(FilteredRows)
        /\ frame.avg_price.den = Cardinality(FilteredRows)
        /\ frame.avg_price.num = PriceTotal(FilteredRows)
        /\ frame.avg_min_nights.den = Cardinality(FilteredRows)
        /\ frame.avg_min_nights.num = NightsTotal(FilteredRows)
        /\ Idx(out.violin.rows) = {r.idx : r \in FilteredRows}
        /\ Idx(out.hist.rows) = {r.idx : r \in {x \in FilteredRows : x.price <= HistBound}}

\* A filtered row without longitude only and one without latitude only: both
\* are off the map and in the histogram.
C6_Witness ==
    /\ Serving
    /\ \E r \in FilteredRows :
         r.latitude /= <<>> /\ r.longitude = <<>> /\ r.idx \in Idx(out.hist.rows)
    /\ \E r \in FilteredRows :
         r.latitude = <<>> /\ r.longitude /= <<>> /\ r.idx \in Idx(out.hist.rows)
    /\ \E r \in FilteredRows : HasCoordinates(r)
    /\ Len(out.map.rows) < frame.num_listings

\* C7 as stated: the first invocation of update_all computes over the full
\* loaded dataset, no row excluded.
C7_Original == pc = "first" => frame.data = df

\* C7 amended: at initial load the region and the room type are "All" and
\* the price ceiling is 800, so the first invocation computes over the loaded
\* rows priced at most 800.
C7_InitialView ==
    /\ pc \in {"layout", "first"} =>
         sel = [neigh_group |-> "All", room_type |-> "All", price_ceiling |-> "800"]
    /\ pc = "first" =>
         /\ Range(frame.data) = {r \in Range(df) : r.price <= 800}
         /\ (frame.returned = "full") <=> (\E r \in Range(df) : r.price <= 800)

\* The first view leaves a loaded row out and shows another.
C7_Witness ==
    /\ pc = "first"
    /\ frame.returned = "full"
    /\ \E r \in Range(df) : r \notin Range(frame.data)

Built == pc \in {"layout", "first", "serving"}

\* C8 as stated: a file with a row of non-positive price never reaches the
\* state in which the layout is built and update_all can be invoked.
C8_Original ==
    (file.status = "ok" /\ \E i \in DOMAIN file.rows : file.rows[i].price <= 0)
        => ~Built

\* C8 amended: a missing file or a missing price column aborts the startup;
\* rows of non-positive price do not: they are dropped at load, the layout is
\* built, and df then holds the file's rows of positive price and no other.
C8_Startup ==
    /\ file.status /= "ok" => pc \in {"start", "aborted"}
    /\ file.status = "ok" => pc /= "aborted"
    /\ Built =>
        /\ \A r \in Range(df) : r.price > 0
        /\ Idx(df) = {i \in DOMAIN file.rows : file.rows[i].price > 0}
        /\ \A r \in Range(df) : r.price = file.rows[r.idx].price

\* Serving a file that has a row of non-positive price and a row of positive.
C8_Witness ==
    /\ Serving
    /\ \E i \in DOMAIN file.rows : file.rows[i].price <= 0
    /\ df /= <<>>
    /\ Len(df) < Len(file.rows)

\* C9: after any sequence of filter changes df is the dataset as loaded at
\* startup, and the result and the row sets of the latest invocation are those
\* of the current filter tuple on that dataset, whatever was selected before.
C9_StatelessView ==
    Built =>
        LET loaded == PositivePrice(read_csv(file))
            v == View(loaded, sel.neigh_group, sel.room_type, sel.price_ceiling)
        IN  /\ df = loaded
            /\ Serving => (out = v.ret /\ frame = v.locals)
            /\ Serving => Range(frame.data) = {r \in Range(loaded) : Match(r)}

\* Back at the initial filter tuple after other selections, with a view that
\* shows some rows of df and not others.
C9_Witness ==
    /\ pc = "serving"
    /\ sel = DefaultSel
    /\ frame.returned = "full"
    /\ Len(frame.data) < Len(df)

\* C10: when the filtered subset is not empty, the histogram's rows are the
\* filtered rows priced at most U; with a ceiling of at most 800 they are the
\* whole filtered subset.
C10_HistRows ==
    (Serving /\ FilteredRows /= {}) =>
        /\ Range(out.hist.rows) = {r \in FilteredRows : r.price <= HistBound}
        /\ out.hist.rows = frame.hist_data
        /\ sel.price_ceiling \in {"200", "400", "600", "800"} =>
             out.hist.rows = frame.data
        /\ \A r \in FilteredRows : r.price > 800 => r \notin Range(out.hist.rows)

\* No ceiling below 1000, every filtered row above 800: a histogram without
\* rows next to metrics that are set.
C10_Witness ==
    /\ Serving
    /\ sel.price_ceiling \in {"none", "1000"}
    /\ out.hist.kind = "histogram"
    /\ out.hist.rows = <<>>
    /\ out.kpi_avg_price /= "N/A"
    /\ frame.num_listings >= 1

====
